---- MODULE Spec2Model ----
(***************************************************************************)
(* Model of p3D_acoustic.c: the 3-D acoustic time marcher built on PETSc.  *)
(*                                                                         *)
(* main() builds a structured grid, allocates the wavefield history, and   *)
(* loops over time steps; each KSPSolve calls back update_b_ux (which      *)
(* calls source_term) and, the first time, compute_A_ux.                   *)
(*                                                                         *)
(* Real numbers are exact rationals <<num, den>> (den > 0, lowest terms);  *)
(* the model does not reproduce floating-point rounding.                   *)
(***************************************************************************)
EXTENDS Integers, Sequences, FiniteSets, TLC

(***************************************************************************)
(* Bounds of the model and constants of the program.                       *)
(***************************************************************************)
\* largest node count given on the command line (-da_grid_x/y/z); the
\* x axis may also keep the program's default
MaxN == 4
\* largest node count per axis when compute_A_ux alone is explored
MaxGrid == 5

DefaultN == 25
XMAX == 1000
YMAX == 1000
ZMAX == 1000
C11VAL == 1800
RHOVAL == 1000
TMAX == 1
SnapEvery == 40
MaxRowEntries == 7

\* values the unwritten storage of a freshly duplicated vector may hold
GarbageVals == {0, 1}
\* values standing for a nonzero Ricker force fx
FxVals == {1000}
\* the interior amplitude the linear solve returns repeats with this period
SolPeriod == 4
F0 == 70

NxOpts == (1..MaxN) \cup {DefaultN}
NyOpts == 1..MaxN
NzOpts == 1..MaxN

(***************************************************************************)
(* Exact rational arithmetic (PetscScalar without rounding).               *)
(***************************************************************************)
Abs(x) == IF x < 0 THEN -x ELSE x

RECURSIVE Gcd(_, _)
Gcd(a, b) == IF b = 0 THEN a ELSE Gcd(b, a % b)

Rat(n, d) ==
  LET s == IF d < 0 THEN -1 ELSE 1
      g == Gcd(Abs(n), Abs(d))
  IN  <<(s * n) \div g, (s * d) \div g>>

RInt(k) == <<k, 1>>
Zero == <<0, 1>>
One == <<1, 1>>

RMul(x, y) ==
  LET a == Rat(x[1], y[2])
      c == Rat(y[1], x[2])
  IN  <<a[1] * c[1], a[2] * c[2]>>

RDiv(x, y) == RMul(x, Rat(y[2], y[1]))

RAdd(x, y) ==
  LET g == Gcd(x[2], y[2])
  IN  Rat(x[1] * (y[2] \div g) + y[1] * (x[2] \div g), (x[2] \div g) * y[2])

RNeg(x) == <<-x[1], x[2]>>
RSub(x, y) == RAdd(x, RNeg(y))
RLeq(x, y) == x[1] * y[2] <= y[1] * x[2]

VARIABLES
  pc,          \* position in main(): init, rhs, operator, solve, rotate, diag, cleanup, done, failed
  exit,        \* process exit status; -1 while running
  nx, ny, nz,  \* ctx.model.nx/ny/nz (grid.mx/my/mz)
  nt, it,      \* ctx.time.nt, ctx.time.it
  fx,          \* ctx.src.fx
  src_it,      \* the step index source_term last evaluated the wavelet for
  ux, uxm1, uxm2, uxm3,   \* ctx.wf: [v: node -> value, step: solve that produced the content, 0 = never written]
  b,           \* right-hand side vector handed to the solve
  b_asm,       \* the right-hand side as assembled, before MatNullSpaceRemove
  A,           \* operator matrix: node -> sequence of [col, val]
  row,         \* linear index of the next row compute_A_ux inserts
  ksp_reason,  \* converged reason of the last KSPSolve
  snapshots,   \* step indices in the names of the files save_wavefield_to_m_file was asked to write
  snap_failed, \* step whose snapshot write failed, 0 if none
  cfl_printed  \* the value printed as "CFL CONDITION"

vars == <<pc, exit, nx, ny, nz, nt, it, fx, src_it, ux, uxm1, uxm2, uxm3,
          b, b_asm, A, row, ksp_reason, snapshots, snap_failed, cfl_printed>>

(***************************************************************************)
(* Grid.                                                                   *)
(***************************************************************************)
NodesOf(mx, my, mz) == (0..(mx - 1)) \X (0..(my - 1)) \X (0..(mz - 1))
Nodes == NodesOf(nx, ny, nz)
NNodes == nx * ny * nz
NodeAt(p) == <<p % nx, (p \div nx) % ny, p \div (nx * ny)>>

IsBoundary(n) ==
  \/ n[1] = 0 \/ n[1] = nx - 1
  \/ n[2] = 0 \/ n[2] = ny - 1
  \/ n[3] = 0 \/ n[3] = nz - 1

Interior == {n \in Nodes : ~IsBoundary(n)}

\* *pdx = *pxmax / *pnx, and so on
DxOf(mx) == Rat(XMAX, mx)
Dx == DxOf(nx)
Dy == Rat(YMAX, ny)
Dz == Rat(ZMAX, nz)
\* VecMax(ctx.model.c11, NULL, &cmax)
Cmax == RInt(C11VAL)
\* *pdt = *pdx / cmax
DtOf(mx) == RDiv(DxOf(mx), Cmax)
Dt == DtOf(nx)
Dt2 == RMul(Dt, Dt)
\* *pnt = *ptmax / *pdt, converted to PetscInt: truncation
NtOf(mx) == LET q == RDiv(RInt(TMAX), DtOf(mx)) IN q[1] \div q[2]
\* "CFL CONDITION": cmax * (*pdt) / (*pdx)
CflOf(mx) == RDiv(RMul(Cmax, DtOf(mx)), DxOf(mx))

SrcNode == <<nx \div 2, ny \div 2, nz \div 2>>

\* hx, hy, hz of update_b_ux and compute_A_ux: 1/(m-1), used for interior nodes only
Hx == Rat(1, nx - 1)
Hy == Rat(1, ny - 1)
Hz == Rat(1, nz - 1)
HxHyHz == RMul(RMul(Hx, Hy), Hz)

(***************************************************************************)
(* Material fields: c11 and rho are set once by VecSet and never changed.  *)
(***************************************************************************)
C11(n) == RInt(C11VAL)
Rho(n) == RInt(RHOVAL)

(***************************************************************************)
(* compute_A_ux: one row of the operator.                                  *)
(* i, j, k are unsigned in the code; inside the interior branch they are   *)
(* >= 1, so i - 1 does not wrap.                                           *)
(***************************************************************************)
LowerCoupledOffByOne(idx) == (idx - 1) >= 0

\* if((i - 1) > 0)
LowerCoupled(idx) == (idx - 1) > 0

\* if((i + 1) < (grid.mx - 1))
UpperCoupled(idx, m) == (idx + 1) < (m - 1)

HyHzdHx == RDiv(RMul(Hy, Hz), Hx)
HxHzdHy == RDiv(RMul(Hx, Hz), Hy)
HxHydHz == RDiv(RMul(Hx, Hy), Hz)

\* c11[k][j][i] * dt2 / rho[k][j][i]
Coef(n) == RDiv(RMul(C11(n), Dt2), Rho(n))

Entry(c, v) == [col |-> c, val |-> v]

RowOf(n) ==
  IF IsBoundary(n)
  THEN <<Entry(n, One)>>
  ELSE
    LET i == n[1]
        j == n[2]
        k == n[3]
        off(r) == RNeg(RMul(Coef(n), r))
        e1 == IF LowerCoupled(i) THEN <<Entry(<<i - 1, j, k>>, off(HyHzdHx))>> ELSE <<>>
        e2 == IF UpperCoupled(i, nx) THEN <<Entry(<<i + 1, j, k>>, off(HyHzdHx))>> ELSE <<>>
        e3 == IF LowerCoupled(j) THEN <<Entry(<<i, j - 1, k>>, off(HxHzdHy))>> ELSE <<>>
        e4 == IF UpperCoupled(j, ny) THEN <<Entry(<<i, j + 1, k>>, off(HxHzdHy))>> ELSE <<>>
        e5 == IF LowerCoupled(k) THEN <<Entry(<<i, j, k - 1>>, off(HxHydHz))>> ELSE <<>>
        e6 == IF UpperCoupled(k, nz) THEN <<Entry(<<i, j, k + 1>>, off(HxHydHz))>> ELSE <<>>
        v0 == RAdd(RMul(RMul(Coef(n), RInt(2)), RAdd(RAdd(HyHzdHx, HxHzdHy), HxHydHz)),
                   RMul(RInt(2), HxHyHz))
    IN  <<Entry(n, v0)>> \o e1 \o e2 \o e3 \o e4 \o e5 \o e6

(***************************************************************************)
(* source_term: the Ricker wavelet at t = (it - 1) * dt.                   *)
(* The wavelet is factor * (1 - 2 a (t-t0)^2) * exp(-a (t-t0)^2) with      *)
(* a = PI^2 f0^2 and t0 = 1.2 / f0.  Its values are irrational; the model  *)
(* keeps what the right-hand side depends on: the value is exactly 0 once  *)
(* the double exp() underflows (argument below -745.13, that is            *)
(* |f0 (t - t0)| > sqrt(745.13) / PI = 8.689), and nonzero before.         *)
(* fy and fz are written by source_term and read nowhere.                  *)
(***************************************************************************)
\* f0 * (t - t0) = f0 * (it - 1) * dt - 1.2
WaveletPhase(step) ==
  RSub(RMul(RInt(F0), RMul(RInt(step - 1), Dt)), Rat(12, 10))

ExpUnderflows(step) ==
  LET y == WaveletPhase(step)
  IN  ~RLeq(<<Abs(y[1]), y[2]>>, Rat(8689, 1000))

\* the values c->src.fx may take at this step
ForceVals(step) ==
  IF ExpUnderflows(step) THEN {Zero} ELSE {RInt(f) : f \in FxVals}

(***************************************************************************)
(* update_b_ux: the right-hand side.                                       *)
(***************************************************************************)
\* source_term = dt2 / _rho[k][j][i] * (c->src.fx) at the source node, else 0
SourceTerm(n, f) ==
  IF n = SrcNode THEN RMul(RDiv(Dt2, Rho(n)), f) ELSE Zero

\* 5.f * _uxm1 - 4.f * _uxm2 + 1.f * _uxm3
History(n) ==
  RAdd(RSub(RMul(RInt(5), uxm1.v[n]), RMul(RInt(4), uxm2.v[n])),
       RMul(RInt(1), uxm3.v[n]))

RhsInteriorSourceUnscaled(n, f) ==
  RAdd(RMul(HxHyHz, History(n)), SourceTerm(n, f))

\* f = hx * hy * hz;  f *= 5 uxm1 - 4 uxm2 + 1 uxm3 + source_term;
RhsInterior(n, f) ==
  RMul(HxHyHz, RAdd(History(n), SourceTerm(n, f)))

AssembleRhs(f) ==
  [n \in Nodes |-> IF IsBoundary(n) THEN Zero ELSE RhsInterior(n, f)]

RECURSIVE SumRange(_, _, _)
SumRange(vec, lo, hi) ==
  IF lo > hi THEN Zero
  ELSE IF lo = hi THEN vec[NodeAt(lo)]
  ELSE LET mid == (lo + hi) \div 2
       IN  RAdd(SumRange(vec, lo, mid), SumRange(vec, mid + 1, hi))

VecSum(vec) == SumRange(vec, 0, NNodes - 1)

\* MatNullSpaceCreate(.., PETSC_TRUE, 0, 0, ..); MatNullSpaceRemove: subtract the mean
NullSpaceRemove(vec) ==
  LET mean == RDiv(VecSum(vec), RInt(NNodes))
  IN  [n \in Nodes |-> RSub(vec[n], mean)]

(***************************************************************************)
(* Vectors of the wavefield history.                                       *)
(***************************************************************************)
\* VecDuplicate allocates storage and writes nothing into it
FreshVec(S, g) == [v |-> [n \in S |-> RInt(g)], step |-> 0]
NoVec == [v |-> <<>>, step |-> 0]

\* an identity row fixes the solution entry to the right-hand side entry
IsIdentityRow(r) == Len(r) = 1 /\ r[1].val = One

\* The Krylov iteration itself is outside the program.  Its result on the
\* coupled rows stands for "some vector that differs from step to step and
\* from node to node".
Iterate(step, n) == RInt(1 + (step % SolPeriod) + ((n[1] + n[2] + n[3]) % 2))

Solution(step) ==
  [n \in Nodes |-> IF IsIdentityRow(A[n]) THEN b[n] ELSE Iterate(step, n)]

(***************************************************************************)
(* main()                                                                  *)
(***************************************************************************)
Init ==
  /\ pc = "init"
  /\ exit = -1
  /\ nx = 0 /\ ny = 0 /\ nz = 0
  /\ nt = 0 /\ it = 0
  /\ fx = Zero
  /\ src_it = 0
  /\ ux = NoVec /\ uxm1 = NoVec /\ uxm2 = NoVec /\ uxm3 = NoVec
  /\ b = <<>> /\ b_asm = <<>>
  /\ A = <<>>
  /\ row = 0
  /\ ksp_reason = "none"
  /\ snapshots = <<>>
  /\ snap_failed = 0
  /\ cfl_printed = Zero

\* PetscInitialize .. KSPSetFromOptions, lines 126-257
Setup ==
  /\ pc = "init"
  /\ \E mx \in NxOpts, my \in NyOpts, mz \in NzOpts :
       /\ nx' = mx /\ ny' = my /\ nz' = mz
       /\ \E g1 \in GarbageVals, g2 \in GarbageVals, g3 \in GarbageVals :
            /\ uxm1' = FreshVec(NodesOf(mx, my, mz), g1)
            /\ uxm2' = FreshVec(NodesOf(mx, my, mz), g2)
            /\ uxm3' = FreshVec(NodesOf(mx, my, mz), g3)
       /\ ux' = FreshVec(NodesOf(mx, my, mz), 0)
       /\ b' = [n \in NodesOf(mx, my, mz) |-> Zero]
       /\ b_asm' = [n \in NodesOf(mx, my, mz) |-> Zero]
       /\ nt' = NtOf(mx)
       /\ cfl_printed' = CflOf(mx)
       /\ it' = 1
       /\ pc' = IF 1 <= NtOf(mx) THEN "rhs" ELSE "cleanup"
  /\ UNCHANGED <<exit, fx, src_it, A, row, ksp_reason, snapshots, snap_failed>>

\* a CHKERRQ of the set-up returns the error code from main
SetupFail ==
  /\ pc = "init"
  /\ pc' = "failed"
  /\ exit' = 1
  /\ UNCHANGED <<nx, ny, nz, nt, it, fx, src_it, ux, uxm1, uxm2, uxm3, b, b_asm,
                 A, row, ksp_reason, snapshots, snap_failed, cfl_printed>>

\* update_b_ux, called back by KSPSolve; source_term(c) is its first statement
UpdateRhs ==
  /\ pc = "rhs"
  /\ \E f \in ForceVals(it) :
       /\ fx' = f
       /\ src_it' = it
       /\ b_asm' = AssembleRhs(f)
       /\ b' = NullSpaceRemove(AssembleRhs(f))
  /\ pc' = IF A = <<>> THEN "operator" ELSE "solve"
  /\ UNCHANGED <<exit, nx, ny, nz, nt, it, ux, uxm1, uxm2, uxm3, A, row,
                 ksp_reason, snapshots, snap_failed, cfl_printed>>

\* compute_A_ux, called back by the first KSPSolve only
ComputeOperators ==
  /\ pc = "operator"
  /\ A' = [n \in Nodes |-> RowOf(n)]
  /\ row' = NNodes
  /\ pc' = "solve"
  /\ UNCHANGED <<exit, nx, ny, nz, nt, it, fx, src_it, ux, uxm1, uxm2, uxm3,
                 b, b_asm, ksp_reason, snapshots, snap_failed, cfl_printed>>

\* ierr = KSPSolve(ksp_ux, b, *pux); CHKERRQ(ierr);
\* KSPSolve returns 0 whether or not the iteration converged; the converged
\* reason is kept in the KSP and main never reads it.
Solve ==
  /\ pc = "solve"
  /\ \/ /\ pc' = "failed"
        /\ exit' = 1
        /\ UNCHANGED <<ux, ksp_reason>>
     \/ \E reason \in {"converged", "diverged"} :
          /\ ux' = [v |-> Solution(it), step |-> it]
          /\ ksp_reason' = reason
          /\ pc' = "rotate"
          /\ UNCHANGED exit
  /\ UNCHANGED <<nx, ny, nz, nt, it, fx, src_it, uxm1, uxm2, uxm3, b, b_asm,
                 A, row, snapshots, snap_failed, cfl_printed>>

SnapshotDueOffByOne(step) == (step % SnapEvery) = 1

\* if (((int) it%40) ==0)
SnapshotDue(step) == (step % SnapEvery) = 0

\* it++ and the test it <= *pnt of the for loop
Advance ==
  /\ it' = it + 1
  /\ pc' = IF it + 1 <= nt THEN "rhs" ELSE "cleanup"

RotateWrongOrder ==
  /\ pc = "rotate"
  /\ uxm2' = uxm1
  /\ uxm3' = uxm1
  /\ uxm1' = ux
  /\ IF SnapshotDue(it) THEN pc' = "diag" /\ it' = it ELSE Advance
  /\ UNCHANGED <<exit, nx, ny, nz, nt, fx, src_it, ux, b, b_asm, A, row,
                 ksp_reason, snapshots, snap_failed, cfl_printed>>

\* VecCopy(uxm2, uxm3); VecCopy(uxm1, uxm2); VecCopy(ux, uxm1)
Rotate ==
  /\ pc = "rotate"
  /\ uxm3' = uxm2
  /\ uxm2' = uxm1
  /\ uxm1' = ux
  /\ IF SnapshotDue(it) THEN pc' = "diag" /\ it' = it ELSE Advance
  /\ UNCHANGED <<exit, nx, ny, nz, nt, fx, src_it, ux, b, b_asm, A, row,
                 ksp_reason, snapshots, snap_failed, cfl_printed>>

\* the diagnostics block and save_wavefield_to_m_file: the viewer calls'
\* return codes are dropped and the function returns 0
Snapshot ==
  /\ pc = "diag"
  /\ snapshots' = Append(snapshots, it)
  /\ \E written \in BOOLEAN :
       snap_failed' = IF ~written /\ snap_failed = 0 THEN it ELSE snap_failed
  /\ Advance
  /\ UNCHANGED <<exit, nx, ny, nz, nt, fx, src_it, ux, uxm1, uxm2, uxm3, b,
                 b_asm, A, row, ksp_reason, cfl_printed>>

\* VecDestroy .. PetscFinalize; return 0
Finish ==
  /\ pc = "cleanup"
  /\ pc' = "done"
  /\ exit' = 0
  /\ UNCHANGED <<nx, ny, nz, nt, it, fx, src_it, ux, uxm1, uxm2, uxm3, b, b_asm,
                 A, row, ksp_reason, snapshots, snap_failed, cfl_printed>>

Next ==
  \/ Setup
  \/ SetupFail
  \/ UpdateRhs
  \/ ComputeOperators
  \/ Solve
  \/ Rotate
  \/ Snapshot
  \/ Finish

Spec == Init /\ [][Next]_vars

(***************************************************************************)
(* compute_A_ux alone, row by row in the order of its loops, over every    *)
(* grid up to MaxGrid nodes per axis.                                      *)
(***************************************************************************)
InitA ==
  /\ pc = "assemble"
  /\ exit = -1
  /\ nx \in 1..MaxGrid /\ ny \in 1..MaxGrid /\ nz \in 1..MaxGrid
  /\ nt = 0 /\ it = 0
  /\ fx = Zero
  /\ src_it = 0
  /\ ux = NoVec /\ uxm1 = NoVec /\ uxm2 = NoVec /\ uxm3 = NoVec
  /\ b = <<>> /\ b_asm = <<>>
  /\ A = <<>>
  /\ row = 0
  /\ ksp_reason = "none"
  /\ snapshots = <<>>
  /\ snap_failed = 0
  /\ cfl_printed = Zero

\* one pass of the loop body: MatSetValuesStencil(A, 1, &idxm, n, &idxn, v, INSERT_VALUES)
InsertRow ==
  /\ pc = "assemble"
  /\ row < NNodes
  /\ A' = [n \in (DOMAIN A) \cup {NodeAt(row)} |->
             IF n = NodeAt(row) THEN RowOf(n) ELSE A[n]]
  /\ row' = row + 1
  /\ UNCHANGED <<pc, exit, nx, ny, nz, nt, it, fx, src_it, ux, uxm1, uxm2, uxm3,
                 b, b_asm, ksp_reason, snapshots, snap_failed, cfl_printed>>

\* MatAssemblyBegin / MatAssemblyEnd
AssemblyEnd ==
  /\ pc = "assemble"
  /\ row = NNodes
  /\ pc' = "assembled"
  /\ UNCHANGED <<exit, nx, ny, nz, nt, it, fx, src_it, ux, uxm1, uxm2, uxm3,
                 b, b_asm, A, row, ksp_reason, snapshots, snap_failed, cfl_printed>>

NextA == InsertRow \/ AssemblyEnd

SpecA == InitA /\ [][NextA]_vars

(***************************************************************************)
(* Properties.                                                             *)
(***************************************************************************)
Stepping == pc \in {"rhs", "operator", "solve", "rotate", "diag"}
\* the right-hand side of step it has been built from the history as it stands
RhsBuilt == pc \in {"operator", "solve"}
ValidGrid == nx >= 3 /\ ny >= 3 /\ nz >= 3
\* the storage of the history vectors not written yet happens to hold zeros
ZeroFilled ==
  \A u \in {uxm1, uxm2, uxm3} :
    u.step = 0 => \A n \in DOMAIN u.v : u.v[n] = Zero

\* C1: history rotation law.  Whenever the right-hand side of a step k > 3 is
\* built, the slots n-1, n-2, n-3 hold the solutions produced by the solves
\* of steps k-1, k-2, k-3: one slot per solution, none duplicated or skipped.
C1_RotationLaw ==
  (pc \in {"rhs", "operator", "solve"} /\ it > 3) =>
    /\ uxm1.step = it - 1
    /\ uxm2.step = it - 2
    /\ uxm3.step = it - 3
    /\ \A n \in Interior :
         /\ uxm1.v[n] = Iterate(it - 1, n)
         /\ uxm2.v[n] = Iterate(it - 2, n)
         /\ uxm3.v[n] = Iterate(it - 3, n)

C1_Witness == pc = "solve" /\ it > 3 /\ Interior # {}

\* C2: (on a valid grid) a solve that does not converge moves the run to
\* Failed with a nonzero exit status; nothing of the step runs after it.
C2_NonConvergenceFails ==
  (ValidGrid /\ ksp_reason = "diverged") => (pc = "failed" /\ exit > 0)

\* C3: a grid with fewer than 3 nodes on an axis never reaches the step loop.
C3_SmallGridRejected == Stepping => ValidGrid

\* C4: (on a valid grid) after a snapshot write failure no later step is
\* solved and the run does not end with status 0.
C4_SnapshotFailureAborts ==
  (ValidGrid /\ snap_failed # 0) => (ux.step <= snap_failed /\ exit # 0)

DxDyDz == RMul(RMul(Dx, Dy), Dz)

\* b_asm[n] = dx dy dz * History(n) + SourceTerm(n, fx), decided without
\* forming the product dx dy dz * History(n)
C5_ClaimedAt(n) ==
  LET r == RSub(b_asm[n], SourceTerm(n, fx))
      h == History(n)
  IN  IF h = Zero THEN r = Zero ELSE RDiv(r, h) = DxDyDz

\* C5 as stated: the assembled right-hand side of an interior node is
\* dx*dy*dz * (5 u[n-1] - 4 u[n-2] + u[n-3]) plus the source contribution
\* dt^2/density * fx at the source node, not scaled by the volume factor
\* (stated for runs whose unwritten history storage holds zeros).
C5_Original ==
  (RhsBuilt /\ ZeroFilled) => \A n \in Interior : C5_ClaimedAt(n)

\* C5 amended: the assembled right-hand side of an interior node is
\* hx*hy*hz * (5 u[n-1] - 4 u[n-2] + u[n-3]) + hx*hy*hz * s, with
\* hx = 1/(nx-1), hy = 1/(ny-1), hz = 1/(nz-1) and s = dt^2/density * fx at
\* the source node, 0 elsewhere; boundary entries are 0.
C5_Amended ==
  RhsBuilt =>
    \A n \in Nodes :
      b_asm[n] =
        IF IsBoundary(n) THEN Zero
        ELSE RAdd(RMul(Rat(1, (nx - 1) * (ny - 1) * (nz - 1)),
                       RSub(RAdd(RMul(RInt(5), uxm1.v[n]), uxm3.v[n]),
                            RMul(RInt(4), uxm2.v[n]))),
                  IF n = SrcNode
                  THEN RMul(Rat(1, (nx - 1) * (ny - 1) * (nz - 1)),
                            RDiv(RMul(Dt2, fx), RInt(RHOVAL)))
                  ELSE Zero)

C5_Witness ==
  /\ pc = "solve"
  /\ SrcNode \in Interior
  /\ fx # Zero
  /\ History(SrcNode) # Zero
  /\ it > 1

\* C6: (on a valid grid, unwritten history storage holding zeros) the
\* right-hand side handed to the solve is 0 at every boundary node, and so is
\* every solution.
C6_BoundaryZero ==
  (ValidGrid /\ ZeroFilled) =>
    /\ RhsBuilt => \A n \in Nodes : IsBoundary(n) => b[n] = Zero
    /\ ux.step > 0 => \A n \in Nodes : IsBoundary(n) => ux.v[n] = Zero

\* C7: on a grid with at least 3 nodes per axis, a boundary node's row is the
\* single entry 1 on the diagonal, an interior node's row has its diagonal
\* first and couples to interior nodes only, and no row has more than 7 entries.
C7_OperatorRows ==
  ValidGrid =>
    \A n \in DOMAIN A :
      /\ Len(A[n]) >= 1 /\ Len(A[n]) <= MaxRowEntries
      /\ A[n][1].col = n
      /\ IsBoundary(n) => (Len(A[n]) = 1 /\ A[n][1].val = One)
      /\ ~IsBoundary(n) =>
           \A e \in 2..Len(A[n]) :
             /\ A[n][e].col \in Nodes
             /\ ~IsBoundary(A[n][e].col)
             /\ A[n][e].col # n
             /\ A[n][e].val # Zero

C7_Witness ==
  /\ pc = "assembled"
  /\ ValidGrid
  /\ \E n \in DOMAIN A : Len(A[n]) = MaxRowEntries
  /\ \E n \in DOMAIN A : ~IsBoundary(n) /\ Len(A[n]) < MaxRowEntries

RMin(x, y) == IF RLeq(x, y) THEN x ELSE y
\* max_wave_speed * dt / min(dx, dy, dz)
Cfl == RDiv(RMul(Cmax, Dt), RMin(Dx, RMin(Dy, Dz)))

\* C8: on a valid grid the step loop runs only with CFL <= 1, or the program
\* has reported a CFL value above 1.
C8_CflBound ==
  (Stepping /\ ValidGrid) => (RLeq(Cfl, One) \/ ~RLeq(cfl_printed, One))

Multiples(m) == [k \in 1..m |-> SnapEvery * k]

\* C9: steps run in the order 1..nt with nt = trunc(tmax/dt); within a step
\* the force is evaluated and the right-hand side built, then the solve, then
\* the rotation, then (steps that are multiples of 40) the snapshot named
\* with the step; a completed run has written floor(nt/40) snapshots.
C9_StepOrder ==
  /\ (Stepping \/ pc \in {"cleanup", "done"}) =>
       /\ nt = (TMAX * C11VAL * nx) \div XMAX
       /\ snapshots = Multiples((it - 1) \div SnapEvery)
  /\ Stepping => (it >= 1 /\ it <= nt)
  /\ pc = "rhs" => (src_it = it - 1 /\ ux.step = it - 1 /\ uxm1.step = it - 1)
  /\ RhsBuilt => (src_it = it /\ ux.step = it - 1 /\ uxm1.step = it - 1)
  /\ pc = "rotate" => (src_it = it /\ ux.step = it /\ uxm1.step = it - 1)
  /\ pc = "diag" => (src_it = it /\ ux.step = it /\ uxm1.step = it
                      /\ it % SnapEvery = 0)
  /\ pc \in {"cleanup", "done"} =>
       (it = nt + 1 /\ ux.step = nt /\ uxm1.step = nt
        /\ Len(snapshots) = nt \div SnapEvery)
  /\ pc = "done" => exit = 0

C9_Witness == pc = "done" /\ exit = 0 /\ Len(snapshots) >= 1 /\ snap_failed = 0

\* C10: when the right-hand side is built from the history, every history
\* slot it reads has been written before.
C10_HistoryWritten ==
  (RhsBuilt /\ Interior # {}) =>
    (uxm1.step # 0 /\ uxm2.step # 0 /\ uxm3.step # 0)

====
